---- MODULE Spec2Model ----
(***************************************************************************)
(* Model of the two page-verification scripts of line_multiplication:      *)
(*   verify_setup.py          verify(page) and its __main__ block          *)
(*   verify_visualization.py  verify_visualization()                       *)
(* One run of one script is a sequential flow of browser-automation calls. *)
(* Every call either returns or raises; the page under test emits console  *)
(* messages and page errors asynchronously to the flow.                    *)
(***************************************************************************)
EXTENDS Integers, Sequences, FiniteSets, TLC

(* ---- bounds ---- *)
MaxEvents == 2
MaxSvgCount == 1

(* ---- inputs ---- *)
Scripts == {"verify_setup", "verify_visualization"}
Titles == {"Demo", ""}
EventTexts == {"ready"}
Events == [kind : {"console", "pageerror"}, text : EventTexts]
Unreachable == "net::ERR_CONNECTION_REFUSED"
FaultText == "Target closed"
SetupCalls == {"launch", "new_page", "on:console", "on:pageerror", "goto",
               "wait_for_load_state", "title", "is_visible:.sidebar",
               "is_visible:#num-a", "screenshot"}
VizCalls == {"launch", "new_page", "goto", "screenshot", "count:#demo-svg",
             "screenshot:#demo-svg"}
None == "<none>"

VARIABLES script, env, fault, pc, browser, pageOpen, observers, navStarted,
          produced, log, files, exc, raised, calls

vars == <<script, env, fault, pc, browser, pageOpen, observers, navStarted,
          produced, log, files, exc, raised, calls>>

(* ---- formatting of the printed lines ---- *)
ConsoleLine(text) == "Console: " \o text
PageErrorLine(text) == "Page Error: " \o text
TitleLine(title) == "Page title: " \o title
ErrorLine(text) == "Error during verification: " \o text
SidebarVisibleLine == "Sidebar is visible"
SidebarNotVisibleLine == "Sidebar is NOT visible"
SliderVisibleLine == "Slider A is visible"

EventLine(e) == IF e.kind = "console" THEN ConsoleLine(e.text) ELSE PageErrorLine(e.text)

(* ---- helpers ---- *)
\* the call that raises in this run, if any
Faulty(name) == fault = name

Call(name, outcome) == calls' = Append(calls, <<name, outcome>>)

\* an exception leaves the `with sync_playwright()` block: the run ends,
\* the context manager stops the driver; browser.close() is not invoked
Propagate(text) ==
    /\ raised' = text
    /\ pc' = "done"
    /\ browser' = IF browser = "open" THEN "stopped" ELSE browser
    /\ pageOpen' = FALSE

\* an exception raised inside the try block of verify(page)
Caught(text) ==
    /\ exc' = text
    /\ pc' = "except"

Init ==
    /\ script \in Scripts
    /\ env \in [reachable : BOOLEAN, title : Titles, sidebar : BOOLEAN,
                num_a : BOOLEAN, demo_svg : 0..MaxSvgCount]
    /\ fault \in {None} \cup (IF script = "verify_setup" THEN SetupCalls ELSE VizCalls)
    /\ pc = IF script = "verify_setup" THEN "main_launch" ELSE "viz_launch"
    /\ browser = "none"
    /\ pageOpen = FALSE
    /\ observers = {}
    /\ navStarted = FALSE
    /\ produced = <<>>
    /\ log = <<>>
    /\ files = {}
    /\ exc = None
    /\ raised = None
    /\ calls = <<>>

(* ======================= verify_setup.py ======================= *)

\* browser = p.chromium.launch(headless=True, args=[...])
main_launch ==
    /\ pc = "main_launch"
    /\ \/ /\ ~Faulty("launch")
          /\ Call("launch", "ok")
          /\ browser' = "open"
          /\ pc' = "main_new_page"
          /\ UNCHANGED <<pageOpen, raised>>
       \/ /\ Faulty("launch")
          /\ Call("launch", "raise")
          /\ Propagate(FaultText)
    /\ UNCHANGED <<script, env, fault, observers, navStarted, produced, log, files, exc>>

\* page = browser.new_page()
main_new_page ==
    /\ pc = "main_new_page"
    /\ \/ /\ ~Faulty("new_page")
          /\ Call("new_page", "ok")
          /\ pageOpen' = TRUE
          /\ pc' = "on_console"
          /\ UNCHANGED <<browser, raised>>
       \/ /\ Faulty("new_page")
          /\ Call("new_page", "raise")
          /\ Propagate(FaultText)
    /\ UNCHANGED <<script, env, fault, observers, navStarted, produced, log, files, exc>>

\* page.on("console", lambda msg: print(f"Console: {msg.text}"))
verify_on_console ==
    /\ pc = "on_console"
    /\ \/ /\ ~Faulty("on:console")
          /\ Call("on:console", "ok")
          /\ observers' = observers \cup {"console"}
          /\ pc' = "on_pageerror"
          /\ UNCHANGED <<browser, pageOpen, raised>>
       \/ /\ Faulty("on:console")
          /\ Call("on:console", "raise")
          /\ Propagate(FaultText)
          /\ UNCHANGED observers
    /\ UNCHANGED <<script, env, fault, navStarted, produced, log, files, exc>>

\* page.on("pageerror", lambda exc: print(f"Page Error: {exc}"))
verify_on_pageerror ==
    /\ pc = "on_pageerror"
    /\ \/ /\ ~Faulty("on:pageerror")
          /\ Call("on:pageerror", "ok")
          /\ observers' = observers \cup {"pageerror"}
          /\ pc' = "goto"
          /\ UNCHANGED <<browser, pageOpen, raised>>
       \/ /\ Faulty("on:pageerror")
          /\ Call("on:pageerror", "raise")
          /\ Propagate(FaultText)
          /\ UNCHANGED observers
    /\ UNCHANGED <<script, env, fault, navStarted, produced, log, files, exc>>

\* page.goto("http://localhost:5173"): the navigation is started
verify_goto ==
    /\ pc = "goto"
    /\ navStarted' = TRUE
    /\ pc' = "goto_return"
    /\ UNCHANGED <<script, env, fault, browser, pageOpen, observers, produced, log,
                   files, exc, raised, calls>>

\* variant: the flow goes on to the title query without the network-idle wait
verify_goto_return_nowait ==
    /\ pc = "goto_return"
    /\ \/ /\ env.reachable
          /\ ~Faulty("goto")
          /\ Call("goto", "ok")
          /\ pc' = "title"
          /\ UNCHANGED exc
       \/ /\ ~env.reachable
          /\ Call("goto", "raise")
          /\ Caught(Unreachable)
       \/ /\ env.reachable
          /\ Faulty("goto")
          /\ Call("goto", "raise")
          /\ Caught(FaultText)
    /\ UNCHANGED <<script, env, fault, browser, pageOpen, observers, navStarted,
                   produced, log, files, raised>>

\* page.goto(...) returns, or raises when the page cannot be loaded
verify_goto_return ==
    /\ pc = "goto_return"
    /\ \/ /\ env.reachable
          /\ ~Faulty("goto")
          /\ Call("goto", "ok")
          /\ pc' = "wait"
          /\ UNCHANGED exc
       \/ /\ ~env.reachable
          /\ Call("goto", "raise")
          /\ Caught(Unreachable)
       \/ /\ env.reachable
          /\ Faulty("goto")
          /\ Call("goto", "raise")
          /\ Caught(FaultText)
    /\ UNCHANGED <<script, env, fault, browser, pageOpen, observers, navStarted,
                   produced, log, files, raised>>

\* page.wait_for_load_state("networkidle")
verify_wait ==
    /\ pc = "wait"
    /\ \/ /\ ~Faulty("wait_for_load_state")
          /\ Call("wait_for_load_state", "ok")
          /\ pc' = "title"
          /\ UNCHANGED exc
       \/ /\ Faulty("wait_for_load_state")
          /\ Call("wait_for_load_state", "raise")
          /\ Caught(FaultText)
    /\ UNCHANGED <<script, env, fault, browser, pageOpen, observers, navStarted,
                   produced, log, files, raised>>

\* variant: a failing title query is swallowed and the flow goes on
verify_title_swallow ==
    /\ pc = "title"
    /\ \/ /\ ~Faulty("title")
          /\ Call("title", "ok")
          /\ log' = Append(log, TitleLine(env.title))
       \/ /\ Faulty("title")
          /\ Call("title", "raise")
          /\ UNCHANGED log
    /\ pc' = "sidebar"
    /\ UNCHANGED exc
    /\ UNCHANGED <<script, env, fault, browser, pageOpen, observers, navStarted,
                   produced, files, raised>>

\* title = page.title(); print(f"Page title: {title}")
verify_title ==
    /\ pc = "title"
    /\ \/ /\ ~Faulty("title")
          /\ Call("title", "ok")
          /\ log' = Append(log, TitleLine(env.title))
          /\ pc' = "sidebar"
          /\ UNCHANGED exc
       \/ /\ Faulty("title")
          /\ Call("title", "raise")
          /\ Caught(FaultText)
          /\ UNCHANGED log
    /\ UNCHANGED <<script, env, fault, browser, pageOpen, observers, navStarted,
                   produced, files, raised>>

\* variant: an absent sidebar makes the visibility check raise
verify_sidebar_strict ==
    /\ pc = "sidebar"
    /\ \/ /\ ~Faulty("is_visible:.sidebar")
          /\ env.sidebar
          /\ Call("is_visible:.sidebar", "ok")
          /\ log' = Append(log, SidebarVisibleLine)
          /\ pc' = "slider"
          /\ UNCHANGED exc
       \/ /\ Faulty("is_visible:.sidebar") \/ ~env.sidebar
          /\ Call("is_visible:.sidebar", "raise")
          /\ Caught(FaultText)
          /\ UNCHANGED log
    /\ UNCHANGED <<script, env, fault, browser, pageOpen, observers, navStarted,
                   produced, files, raised>>

\* if page.locator(".sidebar").is_visible(): print(...) else: print(...)
verify_sidebar ==
    /\ pc = "sidebar"
    /\ \/ /\ ~Faulty("is_visible:.sidebar")
          /\ Call("is_visible:.sidebar", "ok")
          /\ log' = Append(log, IF env.sidebar THEN SidebarVisibleLine
                                               ELSE SidebarNotVisibleLine)
          /\ pc' = "slider"
          /\ UNCHANGED exc
       \/ /\ Faulty("is_visible:.sidebar")
          /\ Call("is_visible:.sidebar", "raise")
          /\ Caught(FaultText)
          /\ UNCHANGED log
    /\ UNCHANGED <<script, env, fault, browser, pageOpen, observers, navStarted,
                   produced, files, raised>>

\* variant: the visibility of the slider is never reported
verify_slider_silent ==
    /\ pc = "slider"
    /\ \/ /\ ~Faulty("is_visible:#num-a")
          /\ Call("is_visible:#num-a", "ok")
          /\ pc' = "screenshot"
          /\ UNCHANGED exc
       \/ /\ Faulty("is_visible:#num-a")
          /\ Call("is_visible:#num-a", "raise")
          /\ Caught(FaultText)
    /\ UNCHANGED log
    /\ UNCHANGED <<script, env, fault, browser, pageOpen, observers, navStarted,
                   produced, files, raised>>

\* slider_a = page.locator("#num-a"); if slider_a.is_visible(): print(...)
verify_slider ==
    /\ pc = "slider"
    /\ \/ /\ ~Faulty("is_visible:#num-a")
          /\ Call("is_visible:#num-a", "ok")
          /\ log' = IF env.num_a THEN Append(log, SliderVisibleLine) ELSE log
          /\ pc' = "screenshot"
          /\ UNCHANGED exc
       \/ /\ Faulty("is_visible:#num-a")
          /\ Call("is_visible:#num-a", "raise")
          /\ Caught(FaultText)
          /\ UNCHANGED log
    /\ UNCHANGED <<script, env, fault, browser, pageOpen, observers, navStarted,
                   produced, files, raised>>

\* variant: the image file is written before the failure is noticed
verify_screenshot_partial ==
    /\ pc = "screenshot"
    /\ files' = files \cup {"verification.png"}
    /\ \/ /\ ~Faulty("screenshot")
          /\ Call("screenshot", "ok")
          /\ pc' = "main_close"
          /\ UNCHANGED exc
       \/ /\ Faulty("screenshot")
          /\ Call("screenshot", "raise")
          /\ Caught(FaultText)
    /\ UNCHANGED <<script, env, fault, browser, pageOpen, observers, navStarted,
                   produced, log, raised>>

\* page.screenshot(path="verification.png")
verify_screenshot ==
    /\ pc = "screenshot"
    /\ \/ /\ ~Faulty("screenshot")
          /\ Call("screenshot", "ok")
          /\ files' = files \cup {"verification.png"}
          /\ pc' = "main_close"
          /\ UNCHANGED exc
       \/ /\ Faulty("screenshot")
          /\ Call("screenshot", "raise")
          /\ Caught(FaultText)
          /\ UNCHANGED files
    /\ UNCHANGED <<script, env, fault, browser, pageOpen, observers, navStarted,
                   produced, log, raised>>

\* except Exception as e: print(f"Error during verification: {e}")
verify_except ==
    /\ pc = "except"
    /\ log' = Append(log, ErrorLine(exc))
    /\ exc' = None
    /\ pc' = "main_close"
    /\ UNCHANGED <<script, env, fault, browser, pageOpen, observers, navStarted,
                   produced, files, raised, calls>>

\* browser.close()
main_close ==
    /\ pc = "main_close"
    /\ Call("close", "ok")
    /\ browser' = "closed"
    /\ pageOpen' = FALSE
    /\ pc' = "done"
    /\ UNCHANGED <<script, env, fault, observers, navStarted, produced, log, files,
                   exc, raised>>

(* ==================== verify_visualization.py ==================== *)

\* browser = p.chromium.launch(headless=True)
viz_launch ==
    /\ pc = "viz_launch"
    /\ \/ /\ ~Faulty("launch")
          /\ Call("launch", "ok")
          /\ browser' = "open"
          /\ pc' = "viz_new_page"
          /\ UNCHANGED <<pageOpen, raised>>
       \/ /\ Faulty("launch")
          /\ Call("launch", "raise")
          /\ Propagate(FaultText)
    /\ UNCHANGED <<script, env, fault, observers, navStarted, produced, log, files, exc>>

\* page = browser.new_page()
viz_new_page ==
    /\ pc = "viz_new_page"
    /\ \/ /\ ~Faulty("new_page")
          /\ Call("new_page", "ok")
          /\ pageOpen' = TRUE
          /\ pc' = "viz_goto"
          /\ UNCHANGED <<browser, raised>>
       \/ /\ Faulty("new_page")
          /\ Call("new_page", "raise")
          /\ Propagate(FaultText)
    /\ UNCHANGED <<script, env, fault, observers, navStarted, produced, log, files, exc>>

\* page.goto("http://localhost:5173"): the navigation is started
viz_goto ==
    /\ pc = "viz_goto"
    /\ navStarted' = TRUE
    /\ pc' = "viz_goto_return"
    /\ UNCHANGED <<script, env, fault, browser, pageOpen, observers, produced, log,
                   files, exc, raised, calls>>

\* page.goto(...) returns, or raises when the page cannot be loaded
viz_goto_return ==
    /\ pc = "viz_goto_return"
    /\ \/ /\ env.reachable
          /\ ~Faulty("goto")
          /\ Call("goto", "ok")
          /\ pc' = "viz_sleep"
          /\ UNCHANGED <<browser, pageOpen, raised>>
       \/ /\ ~env.reachable
          /\ Call("goto", "raise")
          /\ Propagate(Unreachable)
       \/ /\ env.reachable
          /\ Faulty("goto")
          /\ Call("goto", "raise")
          /\ Propagate(FaultText)
    /\ UNCHANGED <<script, env, fault, observers, navStarted, produced, log, files, exc>>

\* time.sleep(5)
viz_sleep ==
    /\ pc = "viz_sleep"
    /\ Call("sleep", "ok")
    /\ pc' = "viz_screenshot"
    /\ UNCHANGED <<script, env, fault, browser, pageOpen, observers, navStarted,
                   produced, log, files, exc, raised>>

\* page.screenshot(path="verification.png", full_page=True)
viz_screenshot ==
    /\ pc = "viz_screenshot"
    /\ \/ /\ ~Faulty("screenshot")
          /\ Call("screenshot", "ok")
          /\ files' = files \cup {"verification.png"}
          /\ pc' = "viz_count"
          /\ UNCHANGED <<browser, pageOpen, raised>>
       \/ /\ Faulty("screenshot")
          /\ Call("screenshot", "raise")
          /\ Propagate(FaultText)
          /\ UNCHANGED files
    /\ UNCHANGED <<script, env, fault, observers, navStarted, produced, log, exc>>

\* variant: the element capture is attempted whatever count() returned
viz_count_always ==
    /\ pc = "viz_count"
    /\ \/ /\ ~Faulty("count:#demo-svg")
          /\ Call("count:#demo-svg", "ok")
          /\ pc' = IF env.demo_svg >= 0 THEN "viz_svg_screenshot" ELSE "viz_close"
          /\ UNCHANGED <<browser, pageOpen, raised>>
       \/ /\ Faulty("count:#demo-svg")
          /\ Call("count:#demo-svg", "raise")
          /\ Propagate(FaultText)
    /\ UNCHANGED <<script, env, fault, observers, navStarted, produced, log, files, exc>>

\* svg_element = page.locator("#demo-svg"); if svg_element.count() > 0:
viz_count ==
    /\ pc = "viz_count"
    /\ \/ /\ ~Faulty("count:#demo-svg")
          /\ Call("count:#demo-svg", "ok")
          /\ pc' = IF env.demo_svg > 0 THEN "viz_svg_screenshot" ELSE "viz_close"
          /\ UNCHANGED <<browser, pageOpen, raised>>
       \/ /\ Faulty("count:#demo-svg")
          /\ Call("count:#demo-svg", "raise")
          /\ Propagate(FaultText)
    /\ UNCHANGED <<script, env, fault, observers, navStarted, produced, log, files, exc>>

\* svg_element.screenshot(path="verification_svg.png")
viz_svg_screenshot ==
    /\ pc = "viz_svg_screenshot"
    /\ \/ /\ ~Faulty("screenshot:#demo-svg")
          /\ Call("screenshot:#demo-svg", "ok")
          /\ files' = files \cup {"verification_svg.png"}
          /\ pc' = "viz_close"
          /\ UNCHANGED <<browser, pageOpen, raised>>
       \/ /\ Faulty("screenshot:#demo-svg")
          /\ Call("screenshot:#demo-svg", "raise")
          /\ Propagate(FaultText)
          /\ UNCHANGED files
    /\ UNCHANGED <<script, env, fault, observers, navStarted, produced, log, exc>>

\* browser.close()
viz_close ==
    /\ pc = "viz_close"
    /\ Call("close", "ok")
    /\ browser' = "closed"
    /\ pageOpen' = FALSE
    /\ pc' = "done"
    /\ UNCHANGED <<script, env, fault, observers, navStarted, produced, log, files,
                   exc, raised>>

(* ==================== the page under test ==================== *)

\* variant: the observer puts its line at the head of the log
PageEvent_prepend ==
    /\ pageOpen
    /\ navStarted
    /\ Len(produced) < MaxEvents
    /\ \E e \in Events :
          /\ produced' = Append(produced, e)
          /\ log' = IF e.kind \in observers THEN <<EventLine(e)>> \o log ELSE log
    /\ UNCHANGED <<script, env, fault, pc, browser, pageOpen, observers, navStarted,
                   files, exc, raised, calls>>

\* the page emits a console message or a page error; an attached observer
\* prints one line for it
PageEvent ==
    /\ pageOpen
    /\ navStarted
    /\ Len(produced) < MaxEvents
    /\ \E e \in Events :
          /\ produced' = Append(produced, e)
          /\ log' = IF e.kind \in observers THEN Append(log, EventLine(e)) ELSE log
    /\ UNCHANGED <<script, env, fault, pc, browser, pageOpen, observers, navStarted,
                   files, exc, raised, calls>>

MainStep ==
    \/ main_launch \/ main_new_page \/ verify_on_console \/ verify_on_pageerror
    \/ verify_goto \/ verify_goto_return \/ verify_wait \/ verify_title
    \/ verify_sidebar \/ verify_slider \/ verify_screenshot \/ verify_except
    \/ main_close
    \/ viz_launch \/ viz_new_page \/ viz_goto \/ viz_goto_return \/ viz_sleep
    \/ viz_screenshot \/ viz_count \/ viz_svg_screenshot \/ viz_close

Next == MainStep \/ PageEvent

Spec == Init /\ [][Next]_vars

FairSpec == Spec /\ WF_vars(MainStep)

(* ==================== observations on a run ==================== *)

Range(seq) == {seq[i] : i \in DOMAIN seq}
Called(name) == \E i \in DOMAIN calls : calls[i][1] = name
Returned(name) == <<name, "ok">> \in Range(calls)
CloseCalls == Cardinality({i \in DOMAIN calls : calls[i][1] = "close"})
EventLines == {EventLine(e) : e \in Events}
ErrorLines == {ErrorLine(t) : t \in {Unreachable, FaultText}}
IsEventLine(l) == l \in EventLines
IsMainLine(l) == l \notin EventLines
IsErrorLine(l) == l \in ErrorLines
\* the lines printed by the observers, and those printed by the main flow
EventLog == SelectSeq(log, IsEventLine)
MainLog == SelectSeq(log, IsMainLine)
ProducedLines == [i \in DOMAIN produced |-> EventLine(produced[i])]
ErrorCount == Cardinality({i \in DOMAIN log : IsErrorLine(log[i])})
Position(name) == CHOOSE i \in DOMAIN calls : calls[i][1] = name
Checks == {"title", "is_visible:.sidebar", "is_visible:#num-a"}
Captures == {"screenshot", "count:#demo-svg", "screenshot:#demo-svg"}
Phase(name) ==
    CASE name = "launch" -> 1
      [] name \in {"new_page", "on:console", "on:pageerror"} -> 2
      [] name \in {"goto", "wait_for_load_state", "sleep"} -> 3
      [] name \in Checks -> 4
      [] name \in Captures -> 5
      [] name = "close" -> 6
WaitCall == IF script = "verify_setup" THEN "wait_for_load_state" ELSE "sleep"

(* ==================== claims ==================== *)

\* C1: once the browser has been launched, browser.close() has been invoked
\* exactly once when the run has ended, whatever call raised.
C1_CloseExactlyOnce ==
    (pc = "done" /\ Returned("launch")) => CloseCalls = 1

\* C2: when navigation fails because the page is unreachable, the run ends
\* without an exception propagating and the log holds exactly one
\* 'Error during verification: <failure description>' line, in both scripts.
C2_UnreachableIsLogged ==
    (pc = "done" /\ ~env.reachable /\ <<"goto", "raise">> \in Range(calls)) =>
        /\ raised = None
        /\ ErrorCount = 1
        /\ ErrorLine(Unreachable) \in Range(log)

\* C3: in verify_visualization, verification_svg.png is written only when
\* '#demo-svg' matched at least one element; when count() returned zero the
\* file is not written, nothing is raised, and the flow goes on to
\* browser.close(), which has been invoked once when the run has ended.
C3_SvgCaptureSkipped ==
    script = "verify_visualization" =>
        /\ "verification_svg.png" \in files => env.demo_svg > 0
        /\ (Returned("count:#demo-svg") /\ env.demo_svg = 0) =>
              /\ "verification_svg.png" \notin files
              /\ ~Called("screenshot:#demo-svg")
              /\ raised = None
              /\ pc \in {"viz_close", "done"}
              /\ pc = "done" => CloseCalls = 1

C3_Witness ==
    /\ script = "verify_visualization"
    /\ env.demo_svg = 0
    /\ Returned("count:#demo-svg")
    /\ pc = "done"
    /\ CloseCalls = 1
    /\ files = {"verification.png"}

\* C4: in verify(page), is_visible() on an absent or hidden element returns
\* false instead of raising: '.sidebar' prints 'Sidebar is NOT visible',
\* '#num-a' prints nothing, the check produces no 'Error during
\* verification' line, and the flow continues up to the screenshot.
C4_AbsentIsFalse ==
    script = "verify_setup" =>
        /\ (~env.sidebar /\ Called("is_visible:.sidebar")
                /\ fault # "is_visible:.sidebar") =>
              /\ Returned("is_visible:.sidebar")
              /\ SidebarNotVisibleLine \in Range(MainLog)
              /\ SidebarVisibleLine \notin Range(MainLog)
        /\ (~env.num_a /\ Called("is_visible:#num-a")
                /\ fault # "is_visible:#num-a") =>
              /\ Returned("is_visible:#num-a")
              /\ SliderVisibleLine \notin Range(MainLog)
        /\ (fault = None /\ env.reachable) =>
              /\ exc = None
              /\ ErrorCount = 0
              /\ pc \in {"main_close", "done"} => Returned("screenshot")

C4_Witness ==
    /\ script = "verify_setup"
    /\ ~env.sidebar
    /\ ~env.num_a
    /\ fault = None
    /\ pc = "done"
    /\ MainLog = <<TitleLine(env.title), SidebarNotVisibleLine>>
    /\ "verification.png" \in files

\* C5: the calls of a run are made in the order Launch, Open, Navigate,
\* Check*, Capture*, Close, and no title query, visibility check or
\* screenshot is made before goto and the wait that follows it have returned.
C5_NavigateBeforeChecks ==
    /\ \A i, j \in DOMAIN calls : i < j => Phase(calls[i][1]) <= Phase(calls[j][1])
    /\ \A i \in DOMAIN calls :
          calls[i][1] \in Checks \cup Captures =>
              \E g, w \in 1..(i - 1) :
                  /\ g < w
                  /\ calls[g] = <<"goto", "ok">>
                  /\ calls[w] = <<WaitCall, "ok">>

C5_Witness ==
    /\ pc = "done"
    /\ Returned("screenshot")
    /\ Returned(WaitCall)
    /\ CloseCalls = 1

\* what a run of verify_setup without failure leaves behind
GoodResult ==
    /\ pc = "done"
    /\ \E i, j \in DOMAIN MainLog :
          /\ i < j
          /\ MainLog[i] = TitleLine(env.title)
          /\ MainLog[j] = SliderVisibleLine
    /\ "verification.png" \in files
    /\ Returned("screenshot")
    /\ CloseCalls = 1
    /\ Position("is_visible:#num-a") < Position("screenshot")
    /\ Position("screenshot") < Position("close")
    /\ ErrorCount = 0
    /\ raised = None

\* C6: a run of verify_setup in which no step fails, on a page with title T
\* and a visible '#num-a', eventually has printed 'Page title: T' and then
\* 'Slider A is visible', written verification.png and then closed the
\* browser, with no 'Error during verification' line.
C6_GoodRunCompletes ==
    (script = "verify_setup" /\ fault = None /\ env.reachable /\ env.num_a)
        ~> GoodResult

C6_Witness ==
    /\ script = "verify_setup"
    /\ fault = None
    /\ env.num_a
    /\ env.title = "Demo"
    /\ GoodResult

\* the checks and captures the script makes on the page it was given
StepsOf(s) ==
    IF s = "verify_setup"
    THEN {"title", "is_visible:.sidebar", "is_visible:#num-a", "screenshot"}
    ELSE {"screenshot", "count:#demo-svg"}

\* C7 (as stated): a failure of one step after Launch does not prevent the
\* remaining checks and captures of the run from being attempted.
C7_StepsIndependent ==
    (/\ pc = "done"
     /\ \E i \in DOMAIN calls : calls[i][2] = "raise" /\ Phase(calls[i][1]) >= 3)
        => \A c \in StepsOf(script) : Called(c)

\* C7 (amended): a failure of one step ends the checks and captures of the
\* run: after a call has raised, the only call still made is browser.close(),
\* and only in verify_setup when the failure happened inside verify's try.
C7_FailureEndsSteps ==
    \A i \in DOMAIN calls :
        calls[i][2] = "raise" =>
            /\ \A j \in DOMAIN calls : j > i => calls[j][1] = "close"
            /\ pc = "done" =>
                  IF script = "verify_setup" /\ Phase(calls[i][1]) >= 3
                  THEN CloseCalls = 1 /\ raised = None /\ ErrorCount = 1
                  ELSE CloseCalls = 0 /\ raised # None /\ ErrorCount = 0

C7_Witness ==
    /\ pc = "done"
    /\ script = "verify_setup"
    /\ <<"title", "raise">> \in Range(calls)
    /\ ~Called("is_visible:.sidebar")
    /\ ~Called("screenshot")
    /\ CloseCalls = 1

\* C8: the console and page-error observers are attached before navigation
\* starts, so every event the page produces from the start of navigation is
\* logged, for the page of either script.
C8_EveryEventLogged ==
    /\ navStarted => observers = {"console", "pageerror"}
    /\ EventLog = ProducedLines

\* C9: an observer callback runs only between attachment and close and only
\* appends one line for its event: the log only grows at its end, the event
\* lines are in arrival order, and an event changes nothing of the main flow
\* (its position, its calls, its own lines, the files, the exception state).
C9_ObserversOnlyAppend ==
    [][/\ Len(log') >= Len(log)
       /\ SubSeq(log', 1, Len(log)) = log
       /\ produced' # produced =>
             /\ UNCHANGED <<pc, calls, files, browser, exc, raised, observers>>
             /\ MainLog' = MainLog
             /\ CloseCalls = 0
             /\ log' # log =>
                   /\ produced'[Len(produced')].kind \in observers
                   /\ log' = Append(log, EventLine(produced'[Len(produced')]))
       /\ script = "verify_setup" => EventLog' = ProducedLines']_vars

C9_Witness ==
    /\ script = "verify_setup"
    /\ pc = "done"
    /\ Len(produced) = 2
    /\ produced[1] # produced[2]
    /\ Len(MainLog) >= 2
    /\ IsEventLine(log[2])
    /\ IsEventLine(log[Len(log)])

\* C10: in verify(page) 'Error during verification' is printed at most once,
\* it is the last line the main flow prints, no check or capture is attempted
\* after the call that raised, and verification.png is never written in a run
\* that prints it: the screenshot is reached only when goto, the wait, the
\* title query and both visibility checks returned.
C10_SingleHandler ==
    script = "verify_setup" =>
        /\ ErrorCount <= 1
        /\ \A i \in DOMAIN MainLog : IsErrorLine(MainLog[i]) => i = Len(MainLog)
        /\ ErrorCount = 1 =>
              /\ "verification.png" \notin files
              /\ \E i \in DOMAIN calls :
                    /\ calls[i][2] = "raise"
                    /\ \A j \in DOMAIN calls :
                          j > i => calls[j][1] \notin Checks \cup Captures
        /\ "verification.png" \in files =>
              \A c \in {"goto", "wait_for_load_state", "title",
                        "is_visible:.sidebar", "is_visible:#num-a"} : Returned(c)

C10_Witness ==
    /\ script = "verify_setup"
    /\ pc = "done"
    /\ <<"screenshot", "raise">> \in Range(calls)
    /\ ErrorCount = 1
    /\ MainLog[Len(MainLog)] = ErrorLine(FaultText)
    /\ files = {}
====
